---- MODULE Spec2Model ----
(***************************************************************************)
(* Dynamic S/R Zones (Pine Script v6 indicator, src/unnamed/part_009).     *)
(*                                                                         *)
(* The script is executed once per confirmed bar.  Its sections are the    *)
(* steps of the model, in the order of the source text:                    *)
(*   pivot detection and zone creation (116-146), age increment (149-154), *)
(*   touches + flips (156-187), add temp zones (189-192), merge (194-205), *)
(*   recalc strength (207-210), split / bubble-sort / cap (212-252).       *)
(* Pine floats are modelled as exact rationals [n, d] in lowest terms;     *)
(* d = 0 is Pine's na.  Zone objects are references in Pine: the field id  *)
(* stands for the object's identity and the top lists hold ids.  The box,  *)
(* label and table handles (drawing, 254-313) are rendering state and are  *)
(* not part of the model.                                                  *)
(***************************************************************************)
EXTENDS Integers, Sequences, FiniteSets, TLC

VARIABLES
    warm,           \* TRUE once ta.sma(close, 50) is defined (bar_index >= 49)
    nBars,          \* confirmed bars processed so far
    pc,             \* the section of the script that runs next
    bar,            \* series values of the bar being processed
    zones,          \* var array<Zone> zones
    tempZones,      \* var array<Zone> tempZones
    topSupport,     \* var array<Zone> topSupport (ids of the referenced zones)
    topResistance,  \* var array<Zone> topResistance
    alerts,         \* alert() calls made on the bar being processed
    nextId,         \* identity given to the next Zone.new()
    pivot,          \* history: the pivot-bar values the creation section read
    flat,           \* history: whether every bar so far had one price and
                    \* a volume equal to its baseline, and that price
    atOpen,         \* history: zones as they were when the bar opened
    popped,         \* history: zones popped by the cap loops on this bar
    absorbed,       \* history: ids of the zones a merge touched on this bar
    hook            \* the state of one useWebSocket hook of the frontend

vars == <<warm, nBars, pc, bar, zones, tempZones, topSupport, topResistance,
          alerts, nextId, pivot, flat, atOpen, popped, absorbed, hook>>

----------------------------------------------------------------------------
(* Bounds of the model *)

MaxBars == 2

\* the most zones a populated start state holds
MaxSeed == 6

\* the most WebSocket objects one hook creates
MaxSockets == 3

----------------------------------------------------------------------------
(* Rational arithmetic standing for Pine's float; na is [n |-> 0, d |-> 0] *)

RECURSIVE GCD(_, _)
GCD(a, b) == IF b = 0 THEN a ELSE GCD(b, a % b)

Abs(x) == IF x < 0 THEN -x ELSE x

NA == [n |-> 0, d |-> 0]

IsNA(x) == x.d = 0

Q(num, den) ==
    IF den = 0 THEN NA
    ELSE LET g == GCD(Abs(num), Abs(den))
             s == IF den < 0 THEN -1 ELSE 1
         IN  [n |-> s * (num \div g), d |-> s * (den \div g)]

R(i) == [n |-> i, d |-> 1]

LCM(a, b) == (a \div GCD(a, b)) * b

RAdd(x, y) ==
    IF IsNA(x) \/ IsNA(y) THEN NA
    ELSE LET l == LCM(x.d, y.d)
         IN  Q(x.n * (l \div x.d) + y.n * (l \div y.d), l)

RNeg(x) == IF IsNA(x) THEN NA ELSE [n |-> -x.n, d |-> x.d]

RSub(x, y) == RAdd(x, RNeg(y))

RMul(x, y) ==
    IF IsNA(x) \/ IsNA(y) THEN NA
    ELSE LET a == Q(x.n, y.d)
             b == Q(y.n, x.d)
         IN  [n |-> a.n * b.n, d |-> a.d * b.d]

\* a float division by zero is not a number: na
RDiv(x, y) ==
    IF IsNA(x) \/ IsNA(y) \/ y.n = 0 THEN NA
    ELSE RMul(x, Q(y.d, y.n))

\* Pine v6: a comparison with an na operand is false
RLt(x, y) ==
    /\ ~IsNA(x)
    /\ ~IsNA(y)
    /\ LET l == LCM(x.d, y.d) IN x.n * (l \div x.d) < y.n * (l \div y.d)

RLe(x, y) == ~IsNA(x) /\ ~IsNA(y) /\ (x = y \/ RLt(x, y))

RGt(x, y) == RLt(y, x)

RGe(x, y) == RLe(y, x)

RAbs(x) == IF IsNA(x) THEN NA ELSE [n |-> Abs(x.n), d |-> x.d]

RMin(x, y) == IF IsNA(x) \/ IsNA(y) THEN NA ELSE IF RLt(y, x) THEN y ELSE x

RMax(x, y) == IF IsNA(x) \/ IsNA(y) THEN NA ELSE IF RLt(x, y) THEN y ELSE x

RECURSIVE RPow(_, _)
RPow(x, k) == IF k = 0 THEN R(1) ELSE RMul(x, RPow(x, k - 1))

Min(a, b) == IF a < b THEN a ELSE b

----------------------------------------------------------------------------
(* Sequence helpers standing for the array built-ins *)

ArrayRemove(arr, k) == [m \in 1..(Len(arr) - 1) |-> IF m < k THEN arr[m] ELSE arr[m + 1]]

ArrayPop(arr) == SubSeq(arr, 1, Len(arr) - 1)

Ids(arr) == {arr[k].id : k \in 1..Len(arr)}

ZoneOf(arr, zid) == arr[CHOOSE k \in 1..Len(arr) : arr[k].id = zid]

----------------------------------------------------------------------------
(* Script inputs (lines 5-9).  pivotLen only says how far back the pivot    *)
(* bar lies.  maxZones is read nowhere in the script, so no state depends  *)
(* on it: MaxZonesValues is its declared range.  decayRate is taken at its *)
(* declared minimum, which keeps decayRate ^ age within TLC's integers.    *)

widthMult == Q(1, 2)

decayRate == Q(9, 10)

MaxZonesValues == 2..20

----------------------------------------------------------------------------
(* The series values a bar can carry *)

\* 101 and 103 are bounds of the bands of zones centered at 100, 102 and 103
PriceLevels == {R(100), R(101), R(103)}

BarVolumes == {R(48)}

AtrValues == {R(4)}

VolSmaValues == {R(40)}

\* low <= close <= high; the baselines are defined, or still na in the warm-up
AllBars ==
    {b \in [low : PriceLevels, high : PriceLevels, close : PriceLevels,
            volume : BarVolumes,
            atr14 : AtrValues \cup {NA}, volSMA : VolSmaValues \cup {NA}] :
        /\ RLe(b.low, b.close)
        /\ RLe(b.close, b.high)
        /\ (IsNA(b.atr14) => IsNA(b.volSMA))}

WarmBars == {b \in AllBars : ~IsNA(b.atr14) /\ ~IsNA(b.volSMA)}

\* w: ta.sma(close, 50) is defined on the bar, and so are the shorter baselines
Bars(w) == IF w THEN WarmBars ELSE AllBars

\* bars of a feed that has never moved: one price, volume equal to its
\* baseline, and a true range of 0 on every bar, so the ATR is 0 once defined
QuietPrice == R(100)

QuietVolume == R(40)

QuietBars(w) ==
    {b \in [low : {QuietPrice}, high : {QuietPrice}, close : {QuietPrice},
            volume : {QuietVolume},
            atr14 : {R(0)} \cup (IF w THEN {} ELSE {NA}),
            volSMA : {QuietVolume} \cup (IF w THEN {} ELSE {NA})] :
        IsNA(b.atr14) => IsNA(b.volSMA)}

\* a bar after twenty bars without a trade: volume 0 and a volume baseline
\* of 0, the price where it was
IdleBars ==
    {[low |-> R(100), high |-> R(100), close |-> R(100), volume |-> R(0),
      atr14 |-> R(4), volSMA |-> R(0)]}

\* f: the feed so far; xs: the prices read now; the result is f extended
Flat(f, xs, sameVolume) ==
    LET ys == {x \in xs : ~IsNA(x)} \cup (IF IsNA(f.price) THEN {} ELSE {f.price})
    IN  IF f.ok /\ sameVolume /\ Cardinality(ys) <= 1
        THEN [ok |-> TRUE, price |-> IF ys = {} THEN NA ELSE CHOOSE y \in ys : TRUE]
        ELSE [ok |-> FALSE, price |-> NA]

NoBar == [low |-> NA, high |-> NA, close |-> NA, volume |-> NA, atr14 |-> NA, volSMA |-> NA]

PivotPrices == {R(100), R(102), R(103)}

\* <<volume[pivotLen], volSMA[pivotLen]>>: ratios 1.5, 1.2 (the least that
\* passes the volume filter) and 1
PivotVolumes == {<<R(81), R(54)>>, <<R(96), R(80)>>, <<R(40), R(40)>>}

\* The values pivotLen bars back, and what ta.pivothigh / ta.pivotlow return
\* on this bar: the pivot bar's high / low, or na.  sma50 is the last
\* baseline to become defined.
AllPivotInputs ==
    {p \in [pivotHigh : PivotPrices \cup {NA}, pivotLow : PivotPrices \cup {NA},
            close : PivotPrices, sma50 : {R(100), R(101), NA},
            vol : PivotVolumes, atr14 : AtrValues \cup {NA}] :
        /\ (IsNA(p.atr14) => IsNA(p.sma50))
        /\ (~IsNA(p.pivotHigh) => RLe(p.close, p.pivotHigh))
        /\ (~IsNA(p.pivotLow) => RLe(p.pivotLow, p.close))}

ColdPivotInputs == {p \in AllPivotInputs : IsNA(p.sma50)}

PivotInputs(w) == IF w THEN AllPivotInputs ELSE ColdPivotInputs

NoPivot ==
    [pivotHigh |-> NA, pivotLow |-> NA, close |-> NA, sma50 |-> NA,
     vol |-> <<NA, NA>>, atr14 |-> NA]

\* the values sum can end with in calcBootstrapCI (0..100 in the source);
\* only sum / 100 < 0.5 or not is read by calcStrength
CIOutcomes == {49, 50}

----------------------------------------------------------------------------
(* type Zone (lines 17-31) and Zone.new() *)

ZoneNew(zid) ==
    [id |-> zid, center |-> NA, high |-> NA, low |-> NA, touches |-> 0,
     volume |-> R(0), strength |-> R(0), age |-> 0, is_support |-> TRUE,
     is_broken |-> FALSE, is_flipped |-> FALSE, volRatio |-> R(1), ciLower |-> R(0)]

\* alert("<KIND>: <Side> at <price>", alert.freq_once_per_bar)
Alert(kind, side, at) == [kind |-> kind, side |-> side, at |-> at]

----------------------------------------------------------------------------
(* calcBootstrapCI (lines 88-100): sum is the number of the 100 resamples  *)
(* whose bootTouches exceeded touches * 0.5, decided by math.random()      *)

calcBootstrapCI(touches, sum) ==
    IF touches >= 3 THEN Q(sum, 100) ELSE Q(1, 2)

(* calcStrength (lines 103-114) *)

calcStrength(z, volSMA, sum) ==
    LET freshness == RPow(decayRate, z.age)
        volComp   == RDiv(z.volume, RMul(volSMA, R(z.touches)))
        S == RMul(R(100),
                  RAdd(RAdd(RDiv(RMul(Q(35, 100), R(z.touches)), R(10)),
                            RMul(Q(30, 100), z.volRatio)),
                       RAdd(RMul(Q(20, 100), volComp),
                            RMul(Q(15, 100), freshness))))
        ciL == calcBootstrapCI(z.touches, sum)
    IN  [z EXCEPT !.strength = IF z.touches >= 3 /\ RLt(ciL, Q(1, 2))
                               THEN RMul(S, Q(1, 2)) ELSE S,
                  !.ciLower = ciL]

\* one outcome of math.random() per zone; zones that draw nothing get 50
Draws(arr, need) ==
    {d \in [1..Len(arr) -> CIOutcomes] : \A k \in 1..Len(arr) : k \notin need => d[k] = 50}

----------------------------------------------------------------------------
(* Detect pivots and create zones (lines 116-146) *)

\* variants: touches left at the type's default, and a band of twice the width
PivotZoneUntouched(zid, price, isSupport, p) ==
    LET width == RMul(widthMult, p.atr14)
    IN  [ZoneNew(zid) EXCEPT
            !.center = price,
            !.high = RAdd(price, RDiv(width, R(2))),
            !.low = RSub(price, RDiv(width, R(2))),
            !.volume = p.vol[1],
            !.is_support = isSupport,
            !.volRatio = RDiv(p.vol[1], p.vol[2])]

PivotZoneFullWidth(zid, price, isSupport, p) ==
    LET width == RMul(widthMult, p.atr14)
    IN  [ZoneNew(zid) EXCEPT
            !.center = price,
            !.high = RAdd(price, width),
            !.low = RSub(price, width),
            !.touches = 1,
            !.volume = p.vol[1],
            !.is_support = isSupport,
            !.volRatio = RDiv(p.vol[1], p.vol[2])]

PivotZone(zid, price, isSupport, p) ==
    LET width == RMul(widthMult, p.atr14)
    IN  [ZoneNew(zid) EXCEPT
            !.center = price,
            !.high = RAdd(price, RDiv(width, R(2))),
            !.low = RSub(price, RDiv(width, R(2))),
            !.touches = 1,
            !.volume = p.vol[1],
            !.is_support = isSupport,
            !.volRatio = RDiv(p.vol[1], p.vol[2])]

\* a variant that rejects a volume of exactly 1.2 x the baseline
VolumeFilterStrict(p) == RGt(p.vol[1], RMul(Q(12, 10), p.vol[2]))

VolumeFilter(p) == RGe(p.vol[1], RMul(Q(12, 10), p.vol[2]))

\* variants: every confirmed pivot high accepted, and no trend filter
ResistancePivotUnfiltered(p) == ~IsNA(p.pivotHigh)

ResistancePivotNoTrend(p) == ~IsNA(p.pivotHigh) /\ VolumeFilter(p)

ResistancePivot(p) == ~IsNA(p.pivotHigh) /\ RLt(p.close, p.sma50) /\ VolumeFilter(p)

\* a variant of the support test without the trend filter
SupportPivotNoTrend(p) == ~IsNA(p.pivotLow) /\ VolumeFilter(p)

SupportPivot(p) == ~IsNA(p.pivotLow) /\ RGt(p.close, p.sma50) /\ VolumeFilter(p)

\* the zones pushed to tempZones, resistance block first
PivotZones(p, zid) ==
    LET res == IF ResistancePivot(p)
               THEN <<PivotZone(zid, p.pivotHigh, FALSE, p)>> ELSE <<>>
        sup == IF SupportPivot(p)
               THEN <<PivotZone(zid + Len(res), p.pivotLow, TRUE, p)>> ELSE <<>>
    IN  res \o sup

PivotAlerts(p) ==
    (IF ResistancePivot(p) THEN <<Alert("NEW_ZONE", "Resistance", p.pivotHigh)>> ELSE <<>>)
    \o (IF SupportPivot(p) THEN <<Alert("NEW_ZONE", "Support", p.pivotLow)>> ELSE <<>>)

----------------------------------------------------------------------------
(* Age increment (lines 150-154) *)

\* a variant that leaves the ages alone
AgeZonesFrozen(arr) == arr

AgeZones(arr) == [k \in 1..Len(arr) |-> [arr[k] EXCEPT !.age = @ + 1]]

----------------------------------------------------------------------------
(* Touches + flips (lines 156-187), for one zone, before calcStrength *)

\* a variant with the band's bounds excluded
TouchedExclusive(z, b) ==
    IF z.is_support
    THEN RLt(b.low, z.high) /\ RGt(b.low, z.low)
    ELSE RGt(b.high, z.low) /\ RLt(b.high, z.high)

Touched(z, b) ==
    IF z.is_support
    THEN RLe(b.low, z.high) /\ RGe(b.low, z.low)
    ELSE RGe(b.high, z.low) /\ RLe(b.high, z.high)

\* a variant that tests the bar's extreme instead of its close
BrokenByExtreme(z, b) ==
    /\ ~Touched(z, b)
    /\ IF z.is_support THEN RLt(b.low, z.low) ELSE RGt(b.high, z.high)

Broken(z, b) ==
    /\ ~Touched(z, b)
    /\ IF z.is_support THEN RLt(b.close, z.low) ELSE RGt(b.close, z.high)

\* a variant whose breakout toggles the flags instead of setting them
TouchFlipToggle(z, b) ==
    IF Touched(z, b)
    THEN [z EXCEPT !.touches = @ + 1, !.volume = RAdd(@, b.volume)]
    ELSE IF Broken(z, b)
    THEN [z EXCEPT !.is_broken = ~@, !.is_flipped = ~@,
                   !.is_support = ~z.is_support,
                   !.strength = RMul(@, Q(25, 100))]
    ELSE z

TouchFlip(z, b) ==
    IF Touched(z, b)
    THEN [z EXCEPT !.touches = @ + 1, !.volume = RAdd(@, b.volume)]
    ELSE IF Broken(z, b)
    THEN [z EXCEPT !.is_broken = TRUE, !.is_flipped = TRUE,
                   !.is_support = ~z.is_support,
                   !.strength = RMul(@, Q(25, 100))]
    ELSE z

SideName(isSupport) == IF isSupport THEN "Support" ELSE "Resistance"

TouchFlipAlert(z, b) ==
    IF Touched(z, b) THEN <<Alert("ZONE_TOUCH", SideName(z.is_support), z.center)>>
    ELSE IF Broken(z, b) THEN <<Alert("ZONE_FLIP", SideName(z.is_support), z.center)>>
    ELSE <<>>

\* the loop runs from the last zone down to the first
RECURSIVE TouchFlipAlerts(_, _, _)
TouchFlipAlerts(arr, k, b) ==
    IF k = 0 THEN <<>> ELSE TouchFlipAlert(arr[k], b) \o TouchFlipAlerts(arr, k - 1, b)

----------------------------------------------------------------------------
(* mergeZones (lines 57-85) *)

MergeThreshold(atr14) == RMul(Q(1, 2), atr14)

\* a variant that takes the midpoint of the two centers
MergeIntoMidpoint(z1, z2) ==
    [z1 EXCEPT
        !.center = RDiv(RAdd(z1.center, z2.center), R(2)),
        !.touches = z1.touches + z2.touches,
        !.volume = RAdd(z1.volume, z2.volume),
        !.age = Min(z1.age, z2.age),
        !.strength = RMax(z1.strength, z2.strength)]

\* a variant that keeps the volume of the surviving zone
MergeIntoKeepVolume(z1, z2) ==
    [z1 EXCEPT
        !.center = RDiv(RAdd(RMul(z1.center, R(z1.touches)), RMul(z2.center, R(z2.touches))),
                        R(z1.touches + z2.touches)),
        !.touches = z1.touches + z2.touches,
        !.age = Min(z1.age, z2.age),
        !.strength = RMax(z1.strength, z2.strength)]

MergeInto(z1, z2) ==
    [z1 EXCEPT
        !.center = RDiv(RAdd(RMul(z1.center, R(z1.touches)), RMul(z2.center, R(z2.touches))),
                        R(z1.touches + z2.touches)),
        !.touches = z1.touches + z2.touches,
        !.volume = RAdd(z1.volume, z2.volume),
        !.age = Min(z1.age, z2.age),
        !.strength = RMax(z1.strength, z2.strength)]

\* the inner while: j is not advanced after a removal
RECURSIVE MergeInner(_, _, _, _, _, _)
MergeInner(arr, i, j, merged, toDelete, atr14) ==
    IF j > Len(arr) THEN [arr |-> arr, merged |-> merged, toDelete |-> toDelete]
    ELSE LET z1 == arr[i]
             z2 == arr[j]
             centerDist == RAbs(RSub(z1.center, z2.center))
         IN  IF RLe(centerDist, MergeThreshold(atr14)) /\ z1.is_support = z2.is_support
             THEN MergeInner(ArrayRemove([arr EXCEPT ![i] = MergeInto(z1, z2)], j),
                             i, j, TRUE, Append(toDelete, z2), atr14)
             ELSE MergeInner(arr, i, j + 1, merged, toDelete, atr14)

\* a variant that never scans the same z1 again
MergeNextIndexNoRescan(i, merged) == i + 1

\* where the outer while goes after one inner scan
MergeNextIndex(i, merged) == IF merged THEN i ELSE i + 1

RECURSIVE MergeOuter(_, _, _, _)
MergeOuter(arr, i, toDelete, atr14) ==
    IF ~(i < Len(arr)) THEN [arr |-> arr, toDelete |-> toDelete]
    ELSE LET r == MergeInner(arr, i, i + 1, FALSE, toDelete, atr14)
         IN  MergeOuter(r.arr, MergeNextIndex(i, r.merged), r.toDelete, atr14)

mergeZones(arr, atr14) ==
    IF Len(arr) > 1 THEN MergeOuter(arr, 1, <<>>, atr14)
    ELSE [arr |-> arr, toDelete |-> <<>>]

----------------------------------------------------------------------------
(* Split, bubble-sort and cap (lines 212-252) *)

ZonesCap == 5

SelectSide(arr, isSupport) == SelectSeq(arr, LAMBDA z : z.is_support = isSupport)

BubbleSwap(arr, j) == [arr EXCEPT ![j] = arr[j + 1], ![j + 1] = arr[j]]

\* variants of the comparison: reversed, and swapping equal neighbours too
OutOfOrderReversed(a, b) == RGt(a.strength, b.strength)

OutOfOrderOrEqual(a, b) == RLe(a.strength, b.strength)

\* the comparison of two neighbours that makes them change places
OutOfOrder(a, b) == RLt(a.strength, b.strength)

\* for j = 0 to size - i - 2 (indices here are 1-based)
RECURSIVE BubbleInner(_, _, _)
BubbleInner(arr, j, last) ==
    IF j > last THEN arr
    ELSE BubbleInner(IF OutOfOrder(arr[j], arr[j + 1]) THEN BubbleSwap(arr, j) ELSE arr,
                     j + 1, last)

\* for i = 0 to size - 2
RECURSIVE BubbleOuter(_, _)
BubbleOuter(arr, i) ==
    IF i > Len(arr) - 2 THEN arr
    ELSE BubbleOuter(BubbleInner(arr, 1, Len(arr) - i - 1), i + 1)

BubbleSort(arr) == IF Len(arr) > 1 THEN BubbleOuter(arr, 0) ELSE arr

\* while array.size(top) > 5: lastZone = array.pop(top)
RECURSIVE CapLoop(_, _)
CapLoop(arr, out) ==
    IF Len(arr) > ZonesCap
    THEN CapLoop(ArrayPop(arr), Append(out, arr[Len(arr)]))
    ELSE [top |-> arr, popped |-> out]

RankSide(arr, isSupport) == CapLoop(BubbleSort(SelectSide(arr, isSupport)), <<>>)

IdsOf(arr) == [k \in 1..Len(arr) |-> arr[k].id]

----------------------------------------------------------------------------
(* The useWebSocket hook (src/frontend/hooks/useWebSocket.ts) *)

\* the hook after its first render: both refs null, status 'disconnected';
\* sockets holds the readyState of every WebSocket created so far, timers
\* the setTimeout calls still pending, each named after the socket whose
\* close event made it; closedByUser is history: disconnect() was called and
\* the component has not called connect() since
useWebSocket(autoReconnect) ==
    [autoReconnect |-> autoReconnect,
     wsRef |-> 0,
     reconnectTimeoutRef |-> 0,
     status |-> "disconnected",
     sockets |-> <<>>,
     timers |-> {},
     mounted |-> FALSE,
     closedByUser |-> FALSE]

\* connect() returns early on an OPEN socket in wsRef
AlreadyOpen(h) == h.wsRef # 0 /\ h.sockets[h.wsRef] = "OPEN"

connect(h) ==
    IF AlreadyOpen(h) THEN h
    ELSE [h EXCEPT !.status = "connecting",
                   !.sockets = Append(@, "CONNECTING"),
                   !.wsRef = Len(h.sockets) + 1]

\* ws.close() : a socket that is not yet closed starts its closing handshake
Close(readyState) ==
    IF readyState \in {"CONNECTING", "OPEN"} THEN "CLOSING" ELSE readyState

disconnect(h) ==
    [h EXCEPT !.timers = @ \ {h.reconnectTimeoutRef},
              !.reconnectTimeoutRef = 0,
              !.sockets = IF h.wsRef = 0 THEN @
                          ELSE [@ EXCEPT ![h.wsRef] = Close(@)],
              !.wsRef = 0]

\* ws.onopen of socket i
onopen(h, i) == [h EXCEPT !.status = "connected", !.sockets[i] = "OPEN"]

\* ws.onerror of socket i
onerror(h, i) == [h EXCEPT !.status = "error"]

\* ws.onclose of socket i, which the browser calls once, when i is CLOSED
onclose(h, i) ==
    LET closed == [h EXCEPT !.status = "disconnected", !.sockets[i] = "CLOSED"]
    IN  IF h.autoReconnect
        THEN [closed EXCEPT !.reconnectTimeoutRef = i, !.timers = @ \cup {i}]
        ELSE closed

----------------------------------------------------------------------------
(* The script, one section per step *)

Init ==
    /\ warm = FALSE
    /\ nBars = 0
    /\ pc = "idle"
    /\ bar = NoBar
    /\ zones = <<>>
    /\ tempZones = <<>>
    /\ topSupport = <<>>
    /\ topResistance = <<>>
    /\ alerts = <<>>
    /\ nextId = 1
    /\ pivot = NoPivot
    /\ flat = [ok |-> TRUE, price |-> NA]
    /\ atOpen = <<>>
    /\ popped = <<>>
    /\ absorbed = {}
    /\ hook = useWebSocket(TRUE)

\* a bar is confirmed and the script starts to run on it
NewBar ==
    /\ pc = "idle"
    /\ nBars < MaxBars
    /\ warm' \in (IF warm THEN {TRUE} ELSE {FALSE, TRUE})
    /\ nBars' = nBars + 1
    /\ atOpen' = zones
    /\ pc' = "pivot"
    /\ UNCHANGED <<hook, bar, zones, tempZones, topSupport, topResistance, alerts, nextId,
                   pivot, flat, popped, absorbed>>

PivotStep ==
    /\ pc = "pivot"
    /\ \E p \in PivotInputs(warm) :
         LET new == PivotZones(p, nextId)
         IN  /\ tempZones' = tempZones \o new
             /\ nextId' = nextId + Len(new)
             /\ alerts' = alerts \o PivotAlerts(p)
             /\ pivot' = p
             /\ flat' = Flat(flat, {p.close, p.sma50, p.pivotHigh, p.pivotLow},
                             p.vol[1] = p.vol[2])
    /\ pc' = "age"
    /\ UNCHANGED <<hook, warm, nBars, bar, zones, topSupport, topResistance, atOpen,
                   popped, absorbed>>

\* a variant whose age loop also runs over the zones proposed on this bar
AgeStepWithProposed ==
    /\ pc = "age"
    /\ zones' = AgeZones(zones)
    /\ tempZones' = AgeZones(tempZones)
    /\ pivot' = NoPivot
    /\ bar' \in Bars(warm) \cup IdleBars \cup (IF flat.ok THEN QuietBars(warm) ELSE {})
    /\ flat' = Flat(flat, {bar'.low, bar'.high, bar'.close},
                    IsNA(bar'.volSMA) \/ bar'.volume = bar'.volSMA)
    /\ pc' = "touch"
    /\ UNCHANGED <<hook, warm, nBars, topSupport, topResistance, alerts,
                   nextId, atOpen, popped, absorbed>>

\* the creation section read the values pivotLen bars back; from here on the
\* script reads the values of the bar itself
AgeStep ==
    /\ pc = "age"
    /\ zones' = AgeZones(zones)
    /\ pivot' = NoPivot
    /\ bar' \in Bars(warm) \cup IdleBars \cup (IF flat.ok THEN QuietBars(warm) ELSE {})
    /\ flat' = Flat(flat, {bar'.low, bar'.high, bar'.close},
                    IsNA(bar'.volSMA) \/ bar'.volume = bar'.volSMA)
    /\ pc' = "touch"
    /\ UNCHANGED <<hook, warm, nBars, tempZones, topSupport, topResistance, alerts,
                   nextId, atOpen, popped, absorbed>>

\* low, high, close and volume are read for the last time in this section:
\* the later sections read atr14 and volSMA only
Baselines(b) == [NoBar EXCEPT !.atr14 = b.atr14, !.volSMA = b.volSMA]

\* calcStrength(z) runs for the touched zones only (lines 186-187)
TouchStep ==
    /\ pc = "touch"
    /\ \E d \in Draws(zones, {k \in 1..Len(zones) :
                                Touched(zones[k], bar) /\ zones[k].touches + 1 >= 3}) :
         zones' = [k \in 1..Len(zones) |->
                     IF Touched(zones[k], bar)
                     THEN calcStrength(TouchFlip(zones[k], bar), bar.volSMA, d[k])
                     ELSE TouchFlip(zones[k], bar)]
    /\ alerts' = alerts \o TouchFlipAlerts(zones, Len(zones), bar)
    /\ bar' = Baselines(bar)
    /\ pc' = "ingest"
    /\ UNCHANGED <<hook, warm, nBars, tempZones, topSupport, topResistance, nextId, pivot,
                   flat, atOpen, popped, absorbed>>

IngestStep ==
    /\ pc = "ingest"
    /\ zones' = zones \o tempZones
    /\ tempZones' = <<>>
    /\ pc' = "merge"
    /\ UNCHANGED <<hook, warm, nBars, bar, topSupport, topResistance, alerts, nextId, pivot,
                   flat, atOpen, popped, absorbed>>

MergeStep ==
    /\ pc = "merge"
    /\ LET r == mergeZones(zones, bar.atr14)
       IN  /\ zones' = r.arr
           /\ absorbed' = Ids(r.toDelete) \cup
                          {z.id : z \in {r.arr[k] : k \in 1..Len(r.arr)} \ 
                                        {zones[k] : k \in 1..Len(zones)}}
    /\ pc' = "rescore"
    /\ UNCHANGED <<hook, warm, nBars, bar, tempZones, topSupport, topResistance, alerts,
                   nextId, pivot, flat, atOpen, popped>>

RescoreStep ==
    /\ pc = "rescore"
    /\ \E d \in Draws(zones, {k \in 1..Len(zones) : zones[k].touches >= 3}) :
         zones' = [k \in 1..Len(zones) |->
                     calcStrength(zones[k], bar.volSMA, d[k])]
    /\ pc' = "rank"
    /\ UNCHANGED <<hook, warm, nBars, bar, tempZones, topSupport, topResistance, alerts,
                   nextId, pivot, flat, atOpen, popped, absorbed>>

RankStep ==
    /\ pc = "rank"
    /\ LET s == RankSide(zones, TRUE)
           r == RankSide(zones, FALSE)
       IN  /\ topSupport' = IdsOf(s.top)
           /\ topResistance' = IdsOf(r.top)
           /\ popped' = s.popped \o r.popped
    /\ pc' = "done"
    /\ UNCHANGED <<hook, warm, nBars, bar, zones, tempZones, alerts, nextId, pivot, flat,
                   atOpen, absorbed>>

\* the script returns; the bar's series values and alerts are gone
CloseBar ==
    /\ pc = "done"
    /\ pc' = "idle"
    /\ bar' = NoBar
    /\ alerts' = <<>>
    /\ atOpen' = <<>>
    /\ popped' = <<>>
    /\ absorbed' = {}
    /\ UNCHANGED <<hook, warm, nBars, zones, tempZones, topSupport, topResistance, nextId,
                   pivot, flat>>

Next ==
    \/ NewBar
    \/ PivotStep
    \/ AgeStep
    \/ TouchStep
    \/ IngestStep
    \/ MergeStep
    \/ RescoreStep
    \/ RankStep
    \/ CloseBar

Spec == Init /\ [][Next]_vars

----------------------------------------------------------------------------
(* Populated start states: the zone set as the script leaves it after a    *)
(* run of bars that each confirmed one pivot and touched or broke no zone. *)
(* Zone k of n was created n - k bars before the last one; every zone was  *)
(* rescored (lines 207-210) and ranked (212-252) on the last bar.          *)

\* resistance zones stacked above the market, the latest one nearest to it;
\* support zones stacked below it; or an older zone at 100 and a later at 103
SeedPrices(n, isSupport) ==
    [k \in 1..n |-> IF isSupport THEN R(100 - 3 * (n - k)) ELSE R(103 + 3 * (n - k))]

NearPrices == <<R(100), R(103)>>

SeedVolume(k, pat) == IF (k + pat) % 2 = 0 THEN <<R(51), R(34)>> ELSE <<R(48), R(32)>>

SeedZones(prices, isSupport, pat) ==
    [k \in 1..Len(prices) |->
        calcStrength(
            [PivotZone(k, prices[k], isSupport,
                       [vol |-> SeedVolume(k, pat), atr14 |-> R(4)])
                EXCEPT !.age = Len(prices) - k],
            R(40), 50)]

\* a zone created at 102 on a bar with ATR 2 (band [101.5, 102.5]) that the
\* last bar broke: a support zone by a close at 100, a resistance zone by a
\* close at 103
BrokenSeed(wasSupport) ==
    LET z0 == [PivotZone(1, R(102), wasSupport,
                         [vol |-> <<R(81), R(54)>>, atr14 |-> R(2)])
                  EXCEPT !.age = 1]
        at == IF wasSupport THEN R(100) ELSE R(103)
        b  == [NoBar EXCEPT !.low = at, !.high = at, !.close = at]
    IN  <<calcStrength(TouchFlip(z0, b), R(40), 50)>>

\* a zone at 100 that two pivots (volume 81 each) and nine touches (volume
\* 48 each) have built up, the second pivot merged into it on the last bar
VeteranSeed(isSupport) ==
    LET z0 == [PivotZone(1, R(100), isSupport,
                         [vol |-> <<R(81), R(54)>>, atr14 |-> R(4)])
                  EXCEPT !.touches = 11, !.volume = R(2 * 81 + 9 * 48)]
    IN  <<calcStrength(z0, R(40), 50)>>

Seeds ==
    {SeedZones(SeedPrices(n, side), side, pat) :
        n \in 1..MaxSeed, side \in BOOLEAN, pat \in {0, 1}}
    \cup {SeedZones(NearPrices, side, pat) : side \in BOOLEAN, pat \in {0, 1}}
    \cup {BrokenSeed(side) : side \in BOOLEAN}
    \cup {VeteranSeed(side) : side \in BOOLEAN}

InitLoaded ==
    /\ warm = TRUE
    /\ nBars = MaxBars - 1
    /\ pc = "idle"
    /\ bar = NoBar
    /\ zones \in Seeds
    /\ tempZones = <<>>
    /\ topSupport = IdsOf(RankSide(zones, TRUE).top)
    /\ topResistance = IdsOf(RankSide(zones, FALSE).top)
    /\ alerts = <<>>
    /\ nextId = Len(zones) + 1
    /\ pivot = NoPivot
    /\ flat = [ok |-> FALSE, price |-> NA]
    /\ atOpen = <<>>
    /\ popped = <<>>
    /\ absorbed = {}
    /\ hook = useWebSocket(TRUE)

SpecLoaded == InitLoaded /\ [][Next]_vars

----------------------------------------------------------------------------
(* Vocabulary of the properties *)

InBand(x, z) == RLe(z.low, x) /\ RLe(x, z.high)

Listed(top) == {top[k] : k \in 1..Len(top)}

PositionOf(zid) == CHOOSE k \in 1..Len(zones) : zones[k].id = zid

SideZones(isSupport) == {zones[k] : k \in {m \in 1..Len(zones) : zones[m].is_support = isSupport}}

TopOf(isSupport) == IF isSupport THEN topSupport ELSE topResistance

\* the zones of a top list, as the objects the list refers to
TopZones(isSupport) == [k \in 1..Len(TopOf(isSupport)) |-> ZoneOf(zones, TopOf(isSupport)[k])]

\* zones that were in the set when the bar opened and still are
Kept == Ids(zones) \cap Ids(atOpen)

EventCount(kind) == Cardinality({k \in 1..Len(alerts) : alerts[k].kind = kind})

----------------------------------------------------------------------------
\* C1: every zone of the authoritative set has low < center < high in every
\* reachable state (as the claim states it; the merge breaks it).
C1_CenterInsideBand ==
    \A k \in 1..Len(zones) :
        RLt(zones[k].low, zones[k].center) /\ RLt(zones[k].center, zones[k].high)

\* C2: once the merge step of a bar has run, no two zones of the same side
\* have centers at a distance <= 0.5 x the bar's ATR.
C2_MergeFixedPoint ==
    pc \in {"rescore", "rank", "done"} =>
        \A i, j \in 1..Len(zones) :
            (i < j /\ zones[i].is_support = zones[j].is_support) =>
                ~RLe(RAbs(RSub(zones[i].center, zones[j].center)),
                     RMul(Q(1, 2), bar.atr14))

\* a merge moved the center of a zone that has an earlier zone of its side
C2_Witness ==
    /\ pc = "rescore"
    /\ \E i, j \in 1..Len(zones) :
         /\ i < j
         /\ zones[i].is_support = zones[j].is_support
         /\ zones[j].id \in absorbed
         /\ zones[i].id \notin absorbed

\* C3: after the ranking step the authoritative set holds only the zones of
\* the two truncated lists (as the claim states it).
C3_DroppedZoneDestroyed ==
    pc = "done" => Ids(zones) = Listed(topSupport) \cup Listed(topResistance)

\* C4: after a bar each visible list holds at most maxZones / 2 zones, for
\* every value the maxZones input allows (as the claim states it).
C4_ConfiguredCap ==
    pc = "done" =>
        \A maxZones \in MaxZonesValues :
            /\ Len(topSupport) <= maxZones \div 2
            /\ Len(topResistance) <= maxZones \div 2

\* C5: after ranking each visible list is ordered by strength, non-increasing,
\* holds zones of its side only, drops nothing while the side has at most
\* five zones, and leaves out no zone stronger than one it holds.  A strength
\* left undefined by a volume baseline of 0 is neither above nor below another.
C5_TopByStrength ==
    pc = "done" =>
        \A side \in BOOLEAN :
            LET top == TopZones(side)
                all == SideZones(side)
            IN  /\ \A k \in 1..Len(top) : top[k] \in all
                /\ \A i, j \in 1..Len(top) : i < j => top[i].id # top[j].id
                /\ Len(top) = Min(Cardinality(all), 5)
                /\ \A i, j \in 1..Len(top) :
                     i < j => ~RLt(top[i].strength, top[j].strength)
                /\ \A z \in all :
                     z.id \notin Listed(TopOf(side)) =>
                        \A k \in 1..Len(top) : ~RGt(z.strength, top[k].strength)

\* a side with more than five zones was cut, and the sort changed the order
C5_Witness ==
    /\ pc = "done"
    /\ \E side \in BOOLEAN :
         /\ Cardinality(SideZones(side)) > 5
         /\ \E i, j \in 1..Len(TopOf(side)) :
              i < j /\ PositionOf(TopOf(side)[i]) > PositionOf(TopOf(side)[j])

C7_EvictionReported ==
    pc = "done" =>
        /\ EventCount("ZONE_EVICTED") = Len(popped)
        /\ \A k \in 1..Len(popped) :
             \E m \in 1..Len(alerts) :
                /\ alerts[m].kind = "ZONE_EVICTED"
                /\ alerts[m].side = SideName(popped[k].is_support)
                /\ alerts[m].at = popped[k].center

\* C8: the touch/break step adds 1 touch and the bar's volume to a support
\* zone whose band holds the bar's low and to a resistance zone whose band
\* holds the bar's high, bounds included, and leaves touches and volume of
\* every other zone alone; outside that step only a merge changes them.
C8_TouchCounts ==
    [][/\ pc = "touch" =>
            /\ Len(zones') = Len(zones)
            /\ \A k \in 1..Len(zones) :
                 LET z == zones[k]
                     hit == InBand(IF z.is_support THEN bar.low ELSE bar.high, z)
                 IN  /\ zones'[k].id = z.id
                     /\ zones'[k].touches = (IF hit THEN z.touches + 1 ELSE z.touches)
                     /\ zones'[k].volume =
                            (IF hit THEN RAdd(z.volume, bar.volume) ELSE z.volume)
       /\ pc \notin {"touch", "merge"} =>
            \A zid \in Ids(zones) \cap Ids(zones') :
                /\ ZoneOf(zones', zid).touches = ZoneOf(zones, zid).touches
                /\ ZoneOf(zones', zid).volume = ZoneOf(zones, zid).volume
      ]_vars

\* a zone created with touches = 1 on an earlier bar has just been touched
C8_Witness ==
    /\ pc = "ingest"
    /\ EventCount("ZONE_TOUCH") >= 1
    /\ \E zid \in Kept :
         /\ ZoneOf(zones, zid).touches = ZoneOf(atOpen, zid).touches + 1
         /\ \E v \in BarVolumes :
              ZoneOf(zones, zid).volume = RAdd(ZoneOf(atOpen, zid).volume, v)

\* C9: in the touch/break step a support zone that is not touched and has
\* the close below its low becomes resistance, a resistance zone that is
\* not touched and has the close above its high becomes support, both with
\* is_broken and is_flipped set; no other zone and no other step changes
\* is_support.
C9_FlipOnlyOnBreakout ==
    [][/\ pc = "touch" =>
            \A k \in 1..Len(zones) :
                LET z == zones[k]
                    hit == InBand(IF z.is_support THEN bar.low ELSE bar.high, z)
                    out == IF z.is_support THEN RLt(bar.close, z.low)
                                           ELSE RGt(bar.close, z.high)
                IN  IF ~hit /\ out
                    THEN /\ zones'[k].is_support = ~z.is_support
                         /\ zones'[k].is_broken
                         /\ zones'[k].is_flipped
                    ELSE zones'[k].is_support = z.is_support
       /\ pc # "touch" =>
            \A zid \in Ids(zones) \cap Ids(zones') :
                ZoneOf(zones', zid).is_support = ZoneOf(zones, zid).is_support
      ]_vars

\* a zone has just changed side
C9_Witness ==
    /\ pc = "ingest"
    /\ EventCount("ZONE_FLIP") >= 1
    /\ \E zid \in Kept :
         /\ ZoneOf(zones, zid).is_support # ZoneOf(atOpen, zid).is_support
         /\ ZoneOf(zones, zid).is_broken
         /\ ZoneOf(zones, zid).is_flipped

\* C10: a zone that broke out on a bar and was not merged on it ends the bar
\* with 0.25 x the strength it had when the bar opened (as the claim states it).
C10_PenaltySurvivesRescore ==
    pc = "done" =>
        \A zid \in Kept \ absorbed :
            ZoneOf(zones, zid).is_support # ZoneOf(atOpen, zid).is_support =>
                ZoneOf(zones, zid).strength = RMul(Q(25, 100), ZoneOf(atOpen, zid).strength)

\* the zones of one side that a step removes from the set, by position
RemovedOn(side) ==
    {k \in 1..Len(zones) : zones[k].is_support = side /\ zones[k].id \notin Ids(zones')}

\* C11: in the touch/break step no zone gets both a touch and a breakout,
\* and a zone whose band shares no price with [bar.low, bar.high] gets
\* neither (as the claim states it).
C11_TouchOrBreakNeedsOverlap ==
    [][pc = "touch" =>
        \A k \in 1..Len(zones) :
            LET z == zones[k]
                touch == zones'[k].touches # z.touches
                break == zones'[k].is_support # z.is_support
                apart == RLt(bar.high, z.low) \/ RGt(bar.low, z.high)
            IN  /\ ~(touch /\ break)
                /\ apart => (~touch /\ ~break)
      ]_vars

\* C12: every zone of the set has touches >= 1; a zone enters the set with
\* touches = 1 and no step lowers the touches of a zone that stays.
C12_TouchesAtLeastOne ==
    [][/\ \A k \in 1..Len(zones') : zones'[k].touches >= 1
       /\ \A zid \in Ids(zones') \ Ids(zones) : ZoneOf(zones', zid).touches = 1
       /\ \A zid \in Ids(zones) \cap Ids(zones') :
            ZoneOf(zones', zid).touches >= ZoneOf(zones, zid).touches
      ]_vars

\* a zone was touched and then absorbed a new zone on the same bar
C12_Witness ==
    /\ pc = "done"
    /\ \E zid \in Kept \cap absorbed :
         ZoneOf(zones, zid).touches = ZoneOf(atOpen, zid).touches + 2

\* C13: when the merge step removes one zone of a side, the removed zone z2
\* entered the set after a zone z1 of that side that survives with center =
\* (c1*t1 + c2*t2) / (t1 + t2), touches = t1 + t2, volume = v1 + v2, age =
\* min(a1, a2) and strength = max(s1, s2); the side's other zones are as before.
C13_MergeFields ==
    [][pc = "merge" =>
        \A side \in BOOLEAN :
            Cardinality(RemovedOn(side)) = 1 =>
                \E j \in RemovedOn(side) : \E i \in 1..(j - 1) :
                    LET z1 == zones[i]
                        z2 == zones[j]
                    IN  /\ z1.is_support = side
                        /\ z1.id \in Ids(zones')
                        /\ LET m == ZoneOf(zones', z1.id)
                           IN  /\ m.center =
                                    RDiv(RAdd(RMul(z1.center, R(z1.touches)),
                                              RMul(z2.center, R(z2.touches))),
                                         R(z1.touches + z2.touches))
                               /\ m.touches = z1.touches + z2.touches
                               /\ m.volume = RAdd(z1.volume, z2.volume)
                               /\ m.age = Min(z1.age, z2.age)
                               /\ m.strength = RMax(z1.strength, z2.strength)
                               /\ m.is_support = side
                        /\ \A k \in 1..Len(zones) :
                             (k \notin {i, j} /\ zones[k].is_support = side) =>
                                \E n \in 1..Len(zones') : zones'[n] = zones[k]
      ]_vars

\* a touched zone (touches 2) absorbed a new zone: the weights differ
C13_Witness ==
    /\ pc = "rescore"
    /\ \E zid \in Kept \cap absorbed :
         /\ ZoneOf(zones, zid).touches = 3
         /\ ZoneOf(atOpen, zid).touches = 1
         /\ ZoneOf(zones, zid).center # ZoneOf(atOpen, zid).center
         /\ ZoneOf(zones, zid).age = 0

\* C14: no step but the merge changes a zone's volRatio, and after a merge
\* the surviving zone's volRatio is the greater of the two zones' ratios (as
\* the claim states it).
C14_VolRatioMaxOnMerge ==
    [][/\ pc # "merge" =>
            \A zid \in Ids(zones) \cap Ids(zones') :
                ZoneOf(zones', zid).volRatio = ZoneOf(zones, zid).volRatio
       /\ pc = "merge" =>
            \A side \in BOOLEAN :
                Cardinality(RemovedOn(side)) = 1 =>
                    \E j \in RemovedOn(side) : \E i \in 1..(j - 1) :
                        /\ zones[i].is_support = side
                        /\ zones[i].id \in Ids(zones')
                        /\ ZoneOf(zones', zones[i].id).touches =
                                zones[i].touches + zones[j].touches
                        /\ ZoneOf(zones', zones[i].id).volRatio =
                                RMax(zones[i].volRatio, zones[j].volRatio)
      ]_vars

\* C15: the age section adds exactly 1 to the age of every zone of the set;
\* a zone enters the set with age 0; the merge step leaves the age of a zone
\* it does not merge alone, never raises an age, and gives the survivor of a
\* merge the smaller of the two ages; no other step changes an age.
C15_AgeCounts ==
    [][/\ pc = "age" =>
            /\ Len(zones') = Len(zones)
            /\ \A k \in 1..Len(zones) :
                 zones'[k].id = zones[k].id /\ zones'[k].age = zones[k].age + 1
       /\ \A zid \in Ids(zones') \ Ids(zones) : ZoneOf(zones', zid).age = 0
       /\ pc = "merge" =>
            /\ \A zid \in Ids(zones) \cap Ids(zones') :
                 /\ ZoneOf(zones', zid).age <= ZoneOf(zones, zid).age
                 /\ zid \notin absorbed' =>
                        ZoneOf(zones', zid).age = ZoneOf(zones, zid).age
            /\ \A side \in BOOLEAN :
                 Cardinality(RemovedOn(side)) = 1 =>
                    \E j \in RemovedOn(side) : \E i \in 1..(j - 1) :
                        /\ zones[i].is_support = side
                        /\ zones[i].id \in absorbed'
                        /\ ZoneOf(zones', zones[i].id).age =
                                Min(zones[i].age, zones[j].age)
       /\ pc \notin {"age", "merge"} =>
            \A zid \in Ids(zones) \cap Ids(zones') :
                ZoneOf(zones', zid).age = ZoneOf(zones, zid).age
      ]_vars

\* at the end of a bar one zone is a bar older than when the bar opened and
\* another, older one has the age 0 of the new zone it absorbed
C15_Witness ==
    /\ pc = "done"
    /\ \E a \in Kept \ absorbed :
         ZoneOf(zones, a).age = ZoneOf(atOpen, a).age + 1
    /\ \E b \in Kept \cap absorbed :
         ZoneOf(zones, b).age = 0 /\ ZoneOf(atOpen, b).age >= 1

\* C16: the strength of every zone of the set is within [0, 100] in every
\* state (as the claim states it: the score is in that range before a
\* penalty, and a penalty only lowers it).
C16_StrengthInRange ==
    \A k \in 1..Len(zones) :
        RLe(R(0), zones[k].strength) /\ RLe(zones[k].strength, R(100))

\* C17: a zone that has is_broken or is_flipped set keeps the flag in every
\* step it survives, also when it breaks out again and when it merges.
C17_FlagsSticky ==
    [][\A zid \in Ids(zones) \cap Ids(zones') :
            /\ ZoneOf(zones, zid).is_broken => ZoneOf(zones', zid).is_broken
            /\ ZoneOf(zones, zid).is_flipped => ZoneOf(zones', zid).is_flipped
      ]_vars

\* a zone that had broken out before the bar broke out again on it, back to
\* the side it was created on, and still has both flags
C17_Witness ==
    /\ pc = "done"
    /\ \E zid \in Kept :
         /\ ZoneOf(atOpen, zid).is_flipped
         /\ ZoneOf(atOpen, zid).is_broken
         /\ ZoneOf(zones, zid).is_support # ZoneOf(atOpen, zid).is_support
         /\ ZoneOf(zones, zid).is_flipped
         /\ ZoneOf(zones, zid).is_broken

\* the zones the creation section pushes in a step
Proposed == SubSeq(tempZones', Len(tempZones) + 1, Len(tempZones'))

\* C18: a zone proposed by the creation section has center = the pivot
\* price (pivot low for support, pivot high for resistance), low / high =
\* center -/+ widthMult x ATR at the pivot bar / 2, touches = 1, volume = the
\* pivot bar's volume and age = 0, and enters the set like that; price 100
\* with ATR 2 and widthMult 0.5 gives the band [99.5, 100.5].
C18_ZoneAsCreated ==
    [][/\ pc = "pivot" =>
            \A k \in 1..Len(Proposed) :
                LET z == Proposed[k]
                    price == IF z.is_support THEN pivot'.pivotLow ELSE pivot'.pivotHigh
                    half == RDiv(RMul(Q(1, 2), pivot'.atr14), R(2))
                IN  /\ ~IsNA(price)
                    /\ z.center = price
                    /\ z.low = RSub(price, half)
                    /\ z.high = RAdd(price, half)
                    /\ z.touches = 1
                    /\ z.volume = pivot'.vol[1]
                    /\ z.age = 0
       /\ pc = "ingest" =>
            /\ Ids(zones') \ Ids(zones) = Ids(tempZones)
            /\ \A k \in 1..Len(tempZones) : ZoneOf(zones', tempZones[k].id) = tempZones[k]
       /\ LET e == PivotZone(1, R(100), TRUE, [vol |-> <<R(81), R(54)>>, atr14 |-> R(2)])
          IN  e.center = R(100) /\ e.low = Q(199, 2) /\ e.high = Q(201, 2)
              /\ e.touches = 1 /\ e.age = 0 /\ e.is_support
      ]_vars

\* a pivot low at 100 with ATR 4 has just become a support zone [99, 101]
C18_Witness ==
    /\ pc = "age"
    /\ Len(tempZones) = 1
    /\ tempZones[1].is_support
    /\ pivot.pivotLow = R(100)
    /\ tempZones[1].center = R(100)
    /\ tempZones[1].low = R(99)
    /\ tempZones[1].high = R(101)

\* C19: the creation section proposes a resistance zone, with a NEW_ZONE
\* alert, exactly when a pivot high is confirmed and at the pivot bar close <
\* sma50 and volume >= 1.2 x volSMA; a support zone exactly when a pivot low
\* is confirmed and close > sma50 and volume >= 1.2 x volSMA; otherwise
\* neither a zone nor an alert.
C19_PivotFilters ==
    [][pc = "pivot" =>
        LET p == pivot'
            volumeOk == RGe(p.vol[1], RMul(Q(6, 5), p.vol[2]))
            wantRes == ~IsNA(p.pivotHigh) /\ RLt(p.close, p.sma50) /\ volumeOk
            wantSup == ~IsNA(p.pivotLow) /\ RLt(p.sma50, p.close) /\ volumeOk
            Made(side) == {k \in 1..Len(Proposed) : Proposed[k].is_support = side}
            Told(name) == {k \in (Len(alerts) + 1)..Len(alerts') :
                                alerts'[k].kind = "NEW_ZONE" /\ alerts'[k].side = name}
        IN  /\ Cardinality(Made(FALSE)) = (IF wantRes THEN 1 ELSE 0)
            /\ Cardinality(Made(TRUE)) = (IF wantSup THEN 1 ELSE 0)
            /\ Cardinality(Told("Resistance")) = (IF wantRes THEN 1 ELSE 0)
            /\ Cardinality(Told("Support")) = (IF wantSup THEN 1 ELSE 0)
            /\ Len(alerts') - Len(alerts) = Len(Proposed)
      ]_vars

\* a pivot high whose volume is exactly 1.2 x the baseline became a zone on
\* a bar that also confirmed a pivot low, which the trend filter rejected
C19_Witness ==
    /\ pc = "age"
    /\ ~IsNA(pivot.pivotHigh)
    /\ ~IsNA(pivot.pivotLow)
    /\ pivot.vol[1] = RMul(Q(6, 5), pivot.vol[2])
    /\ Len(tempZones) = 1
    /\ ~tempZones[1].is_support
    /\ EventCount("NEW_ZONE") = 1

\* C20: no zone with an undefined center, low or high is ever proposed or in
\* the set; on a bar whose pivot-bar ATR is undefined the creation section
\* proposes nothing; on a bar whose ATR is undefined the merge step removes
\* and changes no zone.
C20_NoZoneWithoutAtr ==
    /\ \A arr \in {zones, tempZones} :
         \A k \in 1..Len(arr) :
            ~IsNA(arr[k].center) /\ ~IsNA(arr[k].low) /\ ~IsNA(arr[k].high)
    /\ (pc = "age" /\ IsNA(pivot.atr14)) => tempZones = <<>>
    /\ (pc \in {"rescore", "rank", "done"} /\ IsNA(bar.atr14)) =>
            (absorbed = {} /\ Ids(zones) = Ids(atOpen))

\* a pivot high that passes the volume filter was confirmed while the ATR of
\* its bar was undefined, and nothing was proposed
C20_Witness ==
    /\ pc = "age"
    /\ IsNA(pivot.atr14)
    /\ ~IsNA(pivot.pivotHigh)
    /\ RGe(pivot.vol[1], RMul(Q(6, 5), pivot.vol[2]))
    /\ tempZones = <<>>
    /\ zones = <<>>

\* C21: while every bar fed so far had one and the same price and a volume
\* equal to its baseline, the zone set is empty, nothing is proposed and no
\* alert is emitted.
C21_FlatFeedNoZone ==
    flat.ok => (zones = <<>> /\ tempZones = <<>> /\ alerts = <<>>
                /\ topSupport = <<>> /\ topResistance = <<>>)

\* after the last bar of a flat feed, past the warm-up: the creation section
\* has just seen a pivot high and a pivot low at the one price, with close
\* equal to sma50, and proposed nothing
C21_Witness ==
    /\ flat.ok
    /\ nBars = MaxBars
    /\ pc = "age"
    /\ pivot.pivotHigh = QuietPrice
    /\ pivot.pivotLow = QuietPrice
    /\ pivot.sma50 = QuietPrice
    /\ tempZones = <<>>

\* C22: after the rescoring of a bar every zone's strength is 100 x (0.35 x
\* min(touches, 10) / 10 + 0.30 x volRatio + 0.20 x volume / (volSMA x
\* touches) + 0.15 x decayRate ^ age), halved exactly when touches >= 3 and
\* ciLower < 0.5 (as the claim states it).
C22_ScoreWithCappedTouches ==
    pc \in {"rank", "done"} =>
        \A k \in 1..Len(zones) :
            LET z == zones[k]
                S == RMul(R(100),
                          RAdd(RAdd(RDiv(RMul(Q(35, 100), R(Min(z.touches, 10))), R(10)),
                                    RMul(Q(30, 100), z.volRatio)),
                               RAdd(RMul(Q(20, 100),
                                         RDiv(z.volume, RMul(bar.volSMA, R(z.touches)))),
                                    RMul(Q(15, 100), RPow(decayRate, z.age)))))
            IN  z.strength = (IF z.touches >= 3 /\ RLt(z.ciLower, Q(1, 2))
                              THEN RMul(S, Q(1, 2)) ELSE S)

\* C23: a zone that stays in the set, is not touched on the bar and is not
\* part of a merge on it ends the bar with the strength and ciLower the
\* touch/break step left it with: those of the bar's opening, the strength x
\* 0.25 if the zone broke out (as the claim states it).
C23_RescoreOnlyChanged ==
    pc = "done" =>
        \A zid \in Kept \ absorbed :
            LET z == ZoneOf(zones, zid)
                o == ZoneOf(atOpen, zid)
            IN  z.touches = o.touches =>
                    /\ z.ciLower = o.ciLower
                    /\ z.strength = (IF z.is_support # o.is_support
                                     THEN RMul(o.strength, Q(25, 100)) ELSE o.strength)

\* the zones that entered the set on the bar being processed
Entered == Ids(zones) \ Ids(atOpen)

\* C24: the sections of a bar run in the order creation, aging, touch/break,
\* ingest, merge, rescoring, ranking; a proposed zone waits outside the set
\* with age 0 and touches 1 until the ingest, and a zone that entered on the
\* bar and was not merged has age 0, touches 1 and no breakout at its end.
C24_ProposedZoneSkipsAgeAndTouch ==
    [][/\ <<pc, pc'>> \in {<<"idle", "pivot">>, <<"pivot", "age">>, <<"age", "touch">>,
                          <<"touch", "ingest">>, <<"ingest", "merge">>,
                          <<"merge", "rescore">>, <<"rescore", "rank">>,
                          <<"rank", "done">>, <<"done", "idle">>}
       /\ pc' \in {"idle", "pivot", "merge", "rescore", "rank", "done"} => tempZones' = <<>>
       /\ \A k \in 1..Len(tempZones') :
            /\ tempZones'[k].age = 0
            /\ tempZones'[k].touches = 1
            /\ ~tempZones'[k].is_broken
            /\ tempZones'[k].id \notin Ids(zones')
       /\ pc' \in {"pivot", "age", "touch", "ingest"} => Ids(zones') = Ids(atOpen')
       /\ pc' \in {"merge", "rescore", "rank", "done"} =>
            \A zid \in (Ids(zones') \ Ids(atOpen')) \ absorbed' :
                /\ ZoneOf(zones', zid).age = 0
                /\ ZoneOf(zones', zid).touches = 1
                /\ ~ZoneOf(zones', zid).is_broken
      ]_vars

\* at the end of a bar: a zone that entered on it, untouched and not aged,
\* next to an older zone that the bar touched
C24_Witness ==
    /\ pc = "done"
    /\ \E n \in Entered \ absorbed :
         ZoneOf(zones, n).age = 0 /\ ZoneOf(zones, n).touches = 1
    /\ \E o \in Kept \ absorbed :
         ZoneOf(zones, o).touches = ZoneOf(atOpen, o).touches + 1

\* C25: a proposed zone has high - low = widthMult x the ATR of its pivot
\* bar; a zone that absorbs another in the merge step has high - low =
\* widthMult x the ATR of that bar from then on; aging, touch/break,
\* rescoring and ranking change no zone's high or low (as the claim states it).
C25_WidthFromLastAtr ==
    [][/\ pc = "pivot" =>
            \A k \in 1..Len(Proposed) :
                RSub(Proposed[k].high, Proposed[k].low) = RMul(Q(1, 2), pivot'.atr14)
       /\ pc = "merge" =>
            \A zid \in absorbed' \cap Ids(zones') :
                RSub(ZoneOf(zones', zid).high, ZoneOf(zones', zid).low) =
                    RMul(Q(1, 2), bar.atr14)
       /\ pc \in {"age", "touch", "rescore", "rank"} =>
            \A zid \in Ids(zones) \cap Ids(zones') :
                /\ ZoneOf(zones', zid).high = ZoneOf(zones, zid).high
                /\ ZoneOf(zones', zid).low = ZoneOf(zones, zid).low
      ]_vars

\* C26: when the recalc runs over a non-empty zone set, volSMA x touches is
\* defined and not 0 for every zone, and no zone leaves it with an undefined
\* strength (as the claim states it).
C26_DivisorNotZero ==
    /\ pc = "rescore" =>
            \A k \in 1..Len(zones) :
                LET divisor == RMul(bar.volSMA, R(zones[k].touches))
                IN  ~IsNA(divisor) /\ divisor # R(0)
    /\ pc \in {"rank", "done"} =>
            \A k \in 1..Len(zones) : ~IsNA(zones[k].strength)

\* zones of the set that the ranking of the previous bar left out of both
\* visible lists (the lists keep that ranking until the ranking step)
Dropped == Ids(zones) \ (Listed(topSupport) \cup Listed(topResistance))

\* C27: a zone dropped from its side's visible list on an earlier bar is not
\* aged, touched, broken or flipped, is left as it is by the merge, and is in
\* neither visible list after the ranking (as the claim states it).
C27_DroppedZoneStaysOut ==
    [][\A zid \in Dropped \cap Ids(atOpen) :
          LET z == ZoneOf(zones, zid)
          IN  /\ pc = "age" => ZoneOf(zones', zid).age = z.age
              /\ pc = "touch" =>
                    /\ ZoneOf(zones', zid).touches = z.touches
                    /\ ZoneOf(zones', zid).is_broken = z.is_broken
                    /\ ZoneOf(zones', zid).is_support = z.is_support
              /\ pc = "merge" =>
                    zid \in Ids(zones') /\ ZoneOf(zones', zid) = z
              /\ pc = "rank" =>
                    zid \notin Listed(topSupport') \cup Listed(topResistance')]_vars

\* the touches and the volume of the zones of one side, added up
RECURSIVE TouchesOf(_, _)
TouchesOf(arr, side) ==
    IF arr = <<>> THEN 0
    ELSE (IF Head(arr).is_support = side THEN Head(arr).touches ELSE 0)
         + TouchesOf(Tail(arr), side)

RECURSIVE VolumeOf(_, _)
VolumeOf(arr, side) ==
    IF arr = <<>> THEN R(0)
    ELSE RAdd(IF Head(arr).is_support = side THEN Head(arr).volume ELSE R(0),
              VolumeOf(Tail(arr), side))

\* C28: the merge step leaves each side's sum of touches and sum of volume as
\* they were and never adds a zone.
C28_MergeConservesEvidence ==
    [][pc = "merge" =>
        /\ \A side \in BOOLEAN :
             /\ TouchesOf(zones', side) = TouchesOf(zones, side)
             /\ VolumeOf(zones', side) = VolumeOf(zones, side)
        /\ Len(zones') <= Len(zones)
      ]_vars

\* a merge left fewer zones than the bar opened with, although one entered:
\* two zones of a side went into a third
C28_Witness ==
    /\ pc = "rescore"
    /\ Len(zones) < Len(atOpen)
    /\ \E side \in BOOLEAN :
         /\ TouchesOf(zones, side) > TouchesOf(atOpen, side)
         /\ Cardinality(SideZones(side)) = 1

\* C29: the creation section proposes at most one zone on a bar, its two
\* tests never pass together, and the ingest adds at most one zone to the set.
C29_OneProposalPerBar ==
    [][/\ pc = "pivot" =>
            /\ Len(Proposed) <= 1
            /\ Len(tempZones') <= 1
            /\ ~(ResistancePivot(pivot') /\ SupportPivot(pivot'))
       /\ pc = "ingest" => Len(zones') <= Len(zones) + 1
      ]_vars

\* a bar confirmed a pivot high and a pivot low, the volume filter passed and
\* the close was above the price baseline: one zone, a support zone, proposed
C29_Witness ==
    /\ pc = "age"
    /\ ~IsNA(pivot.pivotHigh)
    /\ ~IsNA(pivot.pivotLow)
    /\ VolumeFilter(pivot)
    /\ RGt(pivot.close, pivot.sma50)
    /\ Len(tempZones) = 1
    /\ tempZones[1].is_support
    /\ tempZones[1].center = pivot.pivotLow
    /\ EventCount("NEW_ZONE") = 1

----------------------------------------------------------------------------
(* The useWebSocket hook as a state machine; the indicator does not run *)

Script == <<warm, nBars, pc, bar, zones, tempZones, topSupport, topResistance,
            alerts, nextId, pivot, flat, atOpen, popped, absorbed>>

\* the hook after its first render, with either value of the autoReconnect
\* option; the script has not run
InitWS ==
    /\ warm = FALSE
    /\ nBars = 0
    /\ pc = "idle"
    /\ bar = NoBar
    /\ zones = <<>>
    /\ tempZones = <<>>
    /\ topSupport = <<>>
    /\ topResistance = <<>>
    /\ alerts = <<>>
    /\ nextId = 1
    /\ pivot = NoPivot
    /\ flat = [ok |-> TRUE, price |-> NA]
    /\ atOpen = <<>>
    /\ popped = <<>>
    /\ absorbed = {}
    /\ hook \in {useWebSocket(a) : a \in BOOLEAN}

\* a step of the hook that may call new WebSocket(...) has one left to create
CanConnect == AlreadyOpen(hook) \/ Len(hook.sockets) < MaxSockets

\* useEffect on mount: connect()
Mount ==
    /\ ~hook.mounted
    /\ CanConnect
    /\ hook' = [connect(hook) EXCEPT !.mounted = TRUE, !.closedByUser = FALSE]
    /\ UNCHANGED Script

\* the cleanup of that effect: disconnect()
Unmount ==
    /\ hook.mounted
    /\ hook' = [disconnect(hook) EXCEPT !.mounted = FALSE, !.closedByUser = TRUE]
    /\ UNCHANGED Script

\* the component calls the connect() the hook returned
CallConnect ==
    /\ hook.mounted
    /\ CanConnect
    /\ hook' = [connect(hook) EXCEPT !.closedByUser = FALSE]
    /\ UNCHANGED Script

\* the component calls the disconnect() the hook returned
CallDisconnect ==
    /\ hook.mounted
    /\ hook' = [disconnect(hook) EXCEPT !.closedByUser = TRUE]
    /\ UNCHANGED Script

\* the handshake of socket i succeeds
SocketOpens ==
    \E i \in 1..Len(hook.sockets) :
        /\ hook.sockets[i] = "CONNECTING"
        /\ hook' = onopen(hook, i)
        /\ UNCHANGED Script

\* the connection of socket i fails: error event, then close event
SocketFails ==
    \E i \in 1..Len(hook.sockets) :
        /\ hook.sockets[i] \in {"CONNECTING", "OPEN"}
        /\ hook' = onclose(onerror(hook, i), i)
        /\ UNCHANGED Script

\* socket i is closed, by the server or after ws.close(): close event
SocketCloses ==
    \E i \in 1..Len(hook.sockets) :
        /\ hook.sockets[i] \in {"OPEN", "CLOSING"}
        /\ hook' = onclose(hook, i)
        /\ UNCHANGED Script

\* a pending setTimeout(connect, reconnectInterval) fires
TimerFires ==
    \E t \in hook.timers :
        /\ CanConnect
        /\ hook' = connect([hook EXCEPT !.timers = @ \ {t}])
        /\ UNCHANGED Script

NextWS ==
    \/ Mount
    \/ Unmount
    \/ CallConnect
    \/ CallDisconnect
    \/ SocketOpens
    \/ SocketFails
    \/ SocketCloses
    \/ TimerFires

SpecWS == InitWS /\ [][NextWS]_vars

\* C30: from disconnect() until the component calls connect() again, no
\* reconnect timer is pending and no step creates a WebSocket, also with
\* autoReconnect on (as the claim states it).
C30_NoReconnectAfterDisconnect ==
    [][hook'.closedByUser =>
          /\ hook'.timers = {}
          /\ hook.closedByUser => Len(hook'.sockets) = Len(hook.sockets)
      ]_vars

====
